---- MODULE Spec2Model ----
(***************************************************************************)
(* Groceri: the product resolution pipeline and the search (src/api/       *)
(* index.ts with the Kroger and Walmart adapters), the adapters' parsing   *)
(* of provider payloads, the deal evaluator of the scanner modal           *)
(* (evaluateDeal) and the scan history.                                    *)
(*                                                                         *)
(* Strings are sequences of one-character strings, so that template        *)
(* strings and toLowerCase are computed.  An optional value (T | null,     *)
(* T | undefined) is <<>> when absent and <<v>> when present.  Prices are   *)
(* integers (cents); the comparisons of evaluateDeal are cross-multiplied  *)
(* so that they stay in the integers.                                      *)
(***************************************************************************)
EXTENDS Integers, Sequences, FiniteSets, TLC

VARIABLES
    env,              \* process.env: the three provider secrets
    catalog,          \* the product records the providers hold for the identifier
    pc,               \* position in the body of fetchProductWithDeals
    krogerToken,      \* index.ts:35  (optional token)
    hasWalmart,       \* index.ts:37
    kpc,              \* position in krogerPromise (index.ts:39-57)
    wpc,              \* position in walmartPromise (index.ts:58-76)
    krogerLocations,  \* index.ts:42, optional: absent until the locate answers
    walmartStores,    \* index.ts:60, optional: absent until the locate answers
    krogerItem,       \* index.ts:77
    walmartItem,      \* index.ts:77
    dealStores,       \* the stores get*Deals iterates over (kroger.ts:188, walmart.ts:191)
    dealIdx,          \* index of the store whose lookup is outstanding
    provDeals,        \* the local `deals` of get*Deals
    deals,            \* index.ts:82
    result,           \* the value fetchProductWithDeals resolves to (optional)
    klog,             \* requests sent to Kroger, in order
    wlog,             \* requests sent to Walmart, in order
    scanned,          \* evaluateDeal: argument `scanned`
    offers,           \* evaluateDeal: argument `deals`
    evaluated,        \* evaluateDeal(scanned, offers), optional
    reevaluated,      \* evaluateDeal(evaluated, offers), optional
    history,          \* HistoryProvider: the state `history` (walmart.ts:297)
    added,            \* the items given to addItem since the last clear, oldest first
    op,               \* the adapter operation applied to `response`
    response,         \* what the provider sent back to that operation
    outcome,          \* what the operation did with it (optional): a value or an exception
    spc,              \* position in the body of searchProducts
    results,          \* index.ts:131  the local `results`
    krogerFound,      \* index.ts:133  what searchKrogerProducts returned ([] before)
    walmartFound,     \* index.ts:143  what searchWalmartProducts returned ([] before)
    searchLocation,   \* kroger.ts:221  locations[0] of searchKrogerProducts (optional)
    searchItems,      \* walmart.ts:230  the local `items` of searchWalmartProducts
    searchResult,     \* the value searchProducts resolves to (optional)
    calls,            \* the number of the call in progress: 1 for the first call
    isProcessing,     \* part_002:60  the state `isProcessing` of ScannerModal
    locationPermission, \* part_002:59, search.tsx:29  the state of useForegroundPermissions
    handler,          \* part_002:64-110  what the installed handleBarcodeScanned closes over
    scans,            \* the invocations of handleBarcodeScanned, in the order of the events
    error,            \* part_002:61  the state `error`
    modalOpen,        \* the scanner is on screen: false after router.back()
    query,            \* search.tsx:24  the state `query`, trimmed
    screenResults,    \* search.tsx:25  the state `results` of SearchScreen
    effects,          \* search.tsx:46-84  the runs of the effect, oldest first
    dirty             \* query or locationPermission was set since the last run of the effect

fetchVars == <<env, catalog, pc, krogerToken, hasWalmart, kpc, wpc, krogerLocations,
               walmartStores, krogerItem, walmartItem, dealStores, dealIdx,
               provDeals, deals, result, klog, wlog>>
evalVars == <<scanned, offers, evaluated, reevaluated>>
historyVars == <<history, added>>
adapterVars == <<op, response, outcome>>
scannerVars == <<isProcessing, handler, scans, error, modalOpen>>
screenVars == <<query, screenResults, effects, dirty>>
uiVars == <<scannerVars, screenVars, locationPermission>>
searchVars == <<spc, results, krogerFound, walmartFound, searchLocation, searchItems,
                searchResult>>
\* the variables of the resolution a search does not use
fetchLocals == <<pc, kpc, wpc, krogerLocations, walmartStores, krogerItem, walmartItem,
                 dealStores, dealIdx, provDeals, deals, result>>
\* what a step of the resolution, of the evaluator, of the history leaves alone
exceptFetch == <<evalVars, historyVars, adapterVars, searchVars, calls, uiVars>>
exceptEval == <<fetchVars, historyVars, adapterVars, searchVars, calls, uiVars>>
exceptHistory == <<fetchVars, evalVars, adapterVars, searchVars, calls, uiVars>>
exceptAdapter == <<fetchVars, evalVars, historyVars, searchVars, calls, uiVars>>
exceptSearch == <<fetchLocals, evalVars, historyVars, adapterVars, calls, uiVars>>
\* what a step of a screen leaves alone
exceptUi == <<fetchVars, evalVars, adapterVars, searchVars, calls>>
vars == <<fetchVars, evalVars, historyVars, adapterVars, searchVars, calls, uiVars>>

(***************************************************************************)
(* Bounds of the model.                                                    *)
(***************************************************************************)
\* the longest store list a store-locate answers with
MaxStores == 2
\* the longest offer list handed to evaluateDeal
MaxOffers == 4

(***************************************************************************)
(* Values.                                                                 *)
(***************************************************************************)
None == <<>>
Some(v) == <<v>>
IsSome(o) == o # <<>>
Val(o) == o[1]

\* String.prototype.toLowerCase on the model's alphabet
LowerChar(c) ==
    CASE c = "A" -> "a"
      [] c = "B" -> "b"
      [] c = "K" -> "k"
      [] c = "O" -> "o"
      [] c = "S" -> "s"
      [] c = "U" -> "u"
      [] c = "W" -> "w"
      [] OTHER -> c
toLowerCase(s) == [i \in 1..Len(s) |-> LowerChar(s[i])]

\* s.includes(sub)
Includes(q, sub) ==
    \E k \in 0..(Len(q) - Len(sub)) : SubSeq(q, k + 1, k + Len(sub)) = sub

Organic == <<"o", "r", "g", "a", "n", "i", "c">>

\* `Kroger (${loc.name})`  kroger.ts:197
KrogerLabel(name) == <<"K", "r", "o", "g", "e", "r", " ", "(">> \o name \o <<")">>
\* storeId ? `Walmart (${storeId})` : 'Walmart'  walmart.ts:173
WalmartLabel(storeId) ==
    IF storeId # <<>>
    THEN <<"W", "a", "l", "m", "a", "r", "t", " ", "(">> \o storeId \o <<")">>
    ELSE <<"W", "a", "l", "m", "a", "r", "t">>

\* the scanned identifier
Upc == <<"7">>
ProductName == <<"m", "i", "l", "k">>
OrganicName == <<"O", "r", "g", "a", "n", "i", "c", " ", "m", "i", "l", "k">>

\* the values of an environment variable: not set, '', '  ', a real value
EnvValues == {"unset", "empty", "blank", "set"}
\* !v of a string-or-undefined
Truthy(v) == v \notin {"unset", "empty"}
\* v.trim() is non-empty
TrimTruthy(v) == v = "set"

\* prices a product lookup resolves to (cents); 0 is the coerced missing price
Prices == {0, 20, 21}

(***************************************************************************)
(* Items and recommendations (src/types/item.ts).                          *)
(***************************************************************************)
NoTag == "undefined"
DealTags == {"DEAL", "SO-SO", "NO DEAL"}

\* the object literal the adapters return (kroger.ts:160-169, walmart.ts:167-176):
\* no tag and no recommendations
MkItem(id, price, store, isOrganic) ==
    [id |-> id, name |-> ProductName, brand |-> None, price |-> price,
     image |-> <<>>, store |-> Some(store), coordinates |-> None,
     isOrganic |-> isOrganic, tag |-> NoTag, recommendations |-> None]

\* kroger.ts:193-199, walmart.ts:196-202
MkDeal(product, store) ==
    [id |-> product.id, name |-> product.name, price |-> product.price,
     store |-> store, distance |-> None]

(***************************************************************************)
(* What the providers may answer.                                          *)
(***************************************************************************)
\* sequences without repetition over S, of length at most n
RECURSIVE DistinctSeqs(_, _)
DistinctSeqs(S, n) ==
    IF n = 0 THEN {<<>>}
    ELSE {<<>>} \cup {<<x>> \o t : x \in S, t \in DistinctSeqs(S, n - 1)}
DistinctOnly(Q) == {q \in Q : \A i, j \in 1..Len(q) : i # j => q[i] # q[j]}

\* records of the Kroger locations payload: locationId and address.name
RawKrogerLocations ==
    { [locationId |-> <<"A">>, addressName |-> None],
      [locationId |-> <<"2">>,
       addressName |-> Some(<<"w", "a", "l", "m", "a", "r", "t", " ", "(", "1", ")">>)] }
\* records of the Walmart stores payload: the store number ('' when the payload
\* has none, walmart.ts:118) and the zip code
RawWalmartStores ==
    { [id |-> <<"1">>, zipCode |-> None],
      [id |-> <<>>, zipCode |-> Some(<<"9">>)] }

\* an HTTP answer: ok = FALSE is a network error or a non-success status
LocateResponses(Raw) ==
    {[ok |-> FALSE, data |-> <<>>]}
        \cup {[ok |-> TRUE, data |-> d] : d \in DistinctOnly(DistinctSeqs(Raw, MaxStores))}
\* the organic flags of the product records: the flag is carried by the item
\* and read by no step of the resolution
OrganicFlags == {FALSE}
\* a product record: `price` is the number the adapter's price extraction
\* resolves it to, `name` the description (Kroger) or name (Walmart), `isOrganic`
\* whether the attributes Kroger reads name it organic
PlainCatalog ==
    {[price |-> p, name |-> ProductName, isOrganic |-> o] : p \in Prices, o \in OrganicFlags}
\* a product payload holds no record or one record of the catalog
ProductResponses(cat) ==
    {[ok |-> FALSE, data |-> <<>>], [ok |-> TRUE, data |-> <<>>]}
        \cup {[ok |-> TRUE, data |-> <<r>>] : r \in cat}
\* the token endpoint: failure, a payload without access_token, a token; the
\* endpoint issues a new token at every exchange, here the n-th call's token n
TokenResponses(n) ==
    {[ok |-> FALSE, access_token |-> None], [ok |-> TRUE, access_token |-> None],
     [ok |-> TRUE, access_token |-> Some(n)]}

(***************************************************************************)
(* Kroger adapter (src/api/kroger.ts).                                     *)
(***************************************************************************)
\* the mutant of KrogerConfigured: the client secret is not looked at
KrogerConfiguredByIdAlone(e) == Truthy(e.KROGER_CLIENT_ID)
\* getKrogerAccessToken: no request without both secrets
KrogerConfigured(e) == Truthy(e.KROGER_CLIENT_ID) /\ Truthy(e.KROGER_CLIENT_SECRET)
\* what getKrogerAccessToken returns for the token endpoint's answer
KrogerTokenOf(resp) == IF resp.ok THEN resp.access_token ELSE None

\* searchKrogerLocations: the answer mapped to {locationId, name}
searchKrogerLocations(resp) ==
    IF ~resp.ok THEN <<>>
    ELSE [i \in 1..Len(resp.data) |->
            [locationId |-> resp.data[i].locationId,
             name |-> IF IsSome(resp.data[i].addressName)
                      THEN Val(resp.data[i].addressName)
                      ELSE resp.data[i].locationId,
             coordinates |-> [lat |-> 0, lon |-> 0]]]

\* getKrogerProductByUPC: the answer mapped to an Item or null
getKrogerProductByUPC(upc, resp) ==
    IF ~resp.ok \/ resp.data = <<>> THEN None
    ELSE Some([MkItem(upc, resp.data[1].price, <<"K", "r", "o", "g", "e", "r">>,
                      resp.data[1].isOrganic)
                  EXCEPT !.name = resp.data[1].name])

(***************************************************************************)
(* Walmart adapter (src/api/walmart.ts).                                   *)
(***************************************************************************)
\* searchWalmartStores
searchWalmartStores(resp) ==
    IF ~resp.ok THEN <<>>
    ELSE [i \in 1..Len(resp.data) |->
            [id |-> resp.data[i].id, zipCode |-> resp.data[i].zipCode]]

\* getWalmartProductByUPC
getWalmartProductByUPC(upc, storeId, resp) ==
    IF ~resp.ok \/ resp.data = <<>> THEN None
    ELSE Some([MkItem(upc, resp.data[1].price, WalmartLabel(storeId),
                      Includes(toLowerCase(resp.data[1].name), Organic))
                  EXCEPT !.name = resp.data[1].name])

(***************************************************************************)
(* Array.prototype.sort((a, b) => a.price - b.price): a stable sort.       *)
(***************************************************************************)
RECURSIVE InsertByPrice(_, _)
InsertByPrice(d, sorted) ==
    IF sorted = <<>> THEN <<d>>
    ELSE IF d.price < sorted[1].price THEN <<d>> \o sorted
    ELSE <<sorted[1]>> \o InsertByPrice(d, Tail(sorted))
RECURSIVE SortByPriceFrom(_, _)
SortByPriceFrom(s, i) ==
    IF i = 0 THEN <<>>
    ELSE InsertByPrice(s[i], SortByPriceFrom(s, i - 1))
\* the mutant of SortByPrice: the array is left in the order it was built
NoSort(s) == s
SortByPrice(s) == SortByPriceFrom(s, Len(s))

(***************************************************************************)
(* fetchProductWithDeals (src/api/index.ts:28-114).                        *)
(*                                                                         *)
(* An action is one run of the JavaScript job queue: the call, or the      *)
(* arrival of one provider answer, with the continuation it resumes up to  *)
(* the next await of a network request.                                    *)
(***************************************************************************)
\* the mutant of KrogerProductRequest: the request is sent without the token
KrogerProductRequestWithoutToken(locationId, token) ==
    [kind |-> "products", store |-> locationId, bearer |-> None]
\* the requests, as the providers see them
KrogerTokenRequest == [kind |-> "token", store |-> <<>>, bearer |-> None]
KrogerLocateRequest(token) == [kind |-> "locations", store |-> <<>>, bearer |-> token]
KrogerProductRequest(locationId, token) ==
    [kind |-> "products", store |-> locationId, bearer |-> token]
\* fetchWalmartJSON appends publisherId when getPublisherId() is defined; the item
\* query carries storeId when it is truthy and else the zip code (walmart.ts:140-144)
WalmartStoresRequest(e) ==
    [kind |-> "stores", store |-> <<>>, zipCode |-> None,
     publisherId |-> TrimTruthy(e.WALMART_PUBLISHER_ID)]
WalmartItemsRequest(e, st) ==
    [kind |-> "items", store |-> st.id,
     zipCode |-> IF st.id # <<>> THEN None ELSE st.zipCode,
     publisherId |-> TrimTruthy(e.WALMART_PUBLISHER_ID)]

\* the per-store lookups of getWalmartDeals and getKrogerDeals, one per located
\* store, in the order of the located stores (walmart.ts:193-194, kroger.ts:190-191)
WalmartLookups(e, stores) == [i \in 1..Len(stores) |-> WalmartItemsRequest(e, stores[i])]
KrogerLookups(locs, token) ==
    [i \in 1..Len(locs) |-> KrogerProductRequest(locs[i].locationId, token)]
\* the mutant of IssueNext: the lookups of all the remaining stores are sent at once
IssueRest(log, lookups, idx) == log \o SubSeq(lookups, idx, Len(lookups))
\* `for (const store of stores) { ... await ...ByUPC(...) }`: the iteration for
\* store idx sends that store's lookup and waits for its answer
IssueNext(log, lookups, idx) == Append(log, lookups[idx])

\* the mutant of PriceTruthy: a product is pushed whatever its price
AnyPrice(p) == TRUE
\* product.price as a condition (kroger.ts:192, walmart.ts:195)
PriceTruthy(p) == p # 0

\* the mutant of SelectItem: Walmart's result takes precedence
WalmartFirst(k, w) == IF IsSome(w) THEN w ELSE k
\* index.ts:80  krogerItem ?? walmartItem ?? null
SelectItem(k, w) == IF IsSome(k) THEN k ELSE w

\* the mutant of FilterDeals: nothing is filtered out
KeepAllDeals(item, ds) == ds
\* index.ts:105-108: item.store?.toLowerCase(), then filter
FilterDeals(item, ds) ==
    IF IsSome(item.store)
    THEN SelectSeq(ds, LAMBDA d : toLowerCase(d.store) # toLowerCase(Val(item.store)))
    ELSE ds

\* index.ts:104-111: filter, sort, return
Finish(allDeals) ==
    /\ pc' = "done"
    /\ deals' = allDeals
    /\ result' = Some([item |-> SelectItem(krogerItem, walmartItem),
                       deals |-> SortByPrice(
                           FilterDeals(Val(SelectItem(krogerItem, walmartItem)), allDeals))])

\* index.ts:94-111, entered with the deals pushed so far
AfterWalmartDeals(allDeals) ==
    /\ dealIdx' = 0
    /\ provDeals' = <<>>
    /\ dealStores' = <<>>
    /\ IF IsSome(walmartItem) /\ IsSome(krogerToken)
       THEN /\ pc' = "krogerDeals.locations"
            /\ klog' = Append(klog, KrogerLocateRequest(krogerToken))
            /\ deals' = allDeals
            /\ UNCHANGED result
       ELSE /\ Finish(allDeals)
            /\ UNCHANGED klog

\* index.ts:36-77: after the token is known, both lookups are started
Fanout(token, klogNow) ==
    /\ pc' = "all"
    /\ krogerToken' = token
    /\ hasWalmart' = Truthy(env.WALMART_PUBLISHER_ID)
    /\ IF IsSome(token)
       THEN /\ kpc' = "locations"
            /\ klog' = Append(klogNow, KrogerLocateRequest(token))
       ELSE /\ kpc' = "done"
            /\ klog' = klogNow
    /\ IF Truthy(env.WALMART_PUBLISHER_ID)
       THEN /\ wpc' = "stores"
            /\ wlog' = Append(wlog, WalmartStoresRequest(env))
       ELSE /\ wpc' = "done"
            /\ UNCHANGED wlog
    /\ UNCHANGED <<env, catalog, krogerLocations, walmartStores, krogerItem, walmartItem,
                   dealStores, dealIdx, provDeals, deals, result>>

\* the call: getKrogerAccessToken returns null at once without both secrets,
\* and else sends the token request (kroger.ts:30-62)
Call ==
    /\ pc = "start"
    /\ spc = "start"
    /\ IF KrogerConfigured(env)
       THEN /\ pc' = "token"
            /\ klog' = Append(klog, KrogerTokenRequest)
            /\ UNCHANGED <<env, catalog, krogerToken, hasWalmart, kpc, wpc, krogerLocations,
                           walmartStores, krogerItem, walmartItem, dealStores,
                           dealIdx, provDeals, deals, result, wlog>>
       ELSE Fanout(None, klog)
    /\ UNCHANGED exceptFetch

\* the token endpoint answers (kroger.ts:63-72)
TokenResponse ==
    /\ pc = "token"
    /\ \E resp \in TokenResponses(calls) : Fanout(KrogerTokenOf(resp), klog)
    /\ UNCHANGED exceptFetch

\* krogerPromise: the locations answer (index.ts:42-51)
KrogerLocationsResponse ==
    /\ pc = "all" /\ kpc = "locations"
    /\ \E resp \in LocateResponses(RawKrogerLocations) :
        LET locs == searchKrogerLocations(resp) IN
        /\ krogerLocations' = Some(locs)
        /\ IF Len(locs) = 0
           THEN kpc' = "done" /\ UNCHANGED klog
           ELSE /\ kpc' = "products"
                /\ klog' = Append(klog,
                       KrogerProductRequest(locs[1].locationId, krogerToken))
    /\ UNCHANGED <<env, catalog, pc, krogerToken, hasWalmart, wpc, walmartStores, krogerItem,
                   walmartItem, dealStores, dealIdx, provDeals, deals, result, wlog>>
    /\ UNCHANGED exceptFetch

\* krogerPromise: the product answer (index.ts:51-56)
KrogerProductResponse ==
    /\ pc = "all" /\ kpc = "products"
    /\ \E resp \in ProductResponses(catalog) :
        LET loc == Val(krogerLocations)[1]
            product == getKrogerProductByUPC(Upc, resp) IN
        krogerItem' =
            IF IsSome(product)
            THEN Some([Val(product) EXCEPT !.store = Some(loc.name),
                                           !.coordinates = Some(loc.coordinates)])
            ELSE None
    /\ kpc' = "done"
    /\ UNCHANGED <<env, catalog, pc, krogerToken, hasWalmart, wpc, krogerLocations,
                   walmartStores, walmartItem, dealStores, dealIdx, provDeals,
                   deals, result, klog, wlog>>
    /\ UNCHANGED exceptFetch

\* walmartPromise: the stores answer (index.ts:60-71)
WalmartStoresResponse ==
    /\ pc = "all" /\ wpc = "stores"
    /\ \E resp \in LocateResponses(RawWalmartStores) :
        LET stores == searchWalmartStores(resp) IN
        /\ walmartStores' = Some(stores)
        /\ IF Len(stores) = 0
           THEN wpc' = "done" /\ UNCHANGED wlog
           ELSE /\ wpc' = "items"
                /\ wlog' = Append(wlog, WalmartItemsRequest(env, stores[1]))
    /\ UNCHANGED <<env, catalog, pc, krogerToken, hasWalmart, kpc, krogerLocations, krogerItem,
                   walmartItem, dealStores, dealIdx, provDeals, deals, result, klog>>
    /\ UNCHANGED exceptFetch

\* walmartPromise: the item answer (index.ts:67-75)
WalmartItemResponse ==
    /\ pc = "all" /\ wpc = "items"
    /\ \E resp \in ProductResponses(catalog) :
        walmartItem' = getWalmartProductByUPC(Upc, Val(walmartStores)[1].id, resp)
    /\ wpc' = "done"
    /\ UNCHANGED <<env, catalog, pc, krogerToken, hasWalmart, kpc, krogerLocations,
                   walmartStores, krogerItem, dealStores, dealIdx, provDeals,
                   deals, result, klog, wlog>>
    /\ UNCHANGED exceptFetch

\* Promise.all has both results (index.ts:77-93, 113)
Join ==
    /\ pc = "all" /\ kpc = "done" /\ wpc = "done"
    /\ IF ~IsSome(SelectItem(krogerItem, walmartItem))
       THEN /\ pc' = "done"
            /\ result' = Some([item |-> None, deals |-> <<>>])
            /\ UNCHANGED <<deals, dealStores, dealIdx, provDeals, klog, wlog>>
       ELSE IF IsSome(krogerItem) /\ hasWalmart
       THEN /\ pc' = "walmartDeals.stores"
            /\ wlog' = Append(wlog, WalmartStoresRequest(env))
            /\ UNCHANGED <<deals, result, dealStores, dealIdx, provDeals, klog>>
       ELSE /\ AfterWalmartDeals(deals)
            /\ UNCHANGED wlog
    /\ UNCHANGED <<env, catalog, krogerToken, hasWalmart, kpc, wpc, krogerLocations,
                   walmartStores, krogerItem, walmartItem>>
    /\ UNCHANGED exceptFetch

\* getWalmartDeals: the stores answer (walmart.ts:191-194)
WalmartDealsStoresResponse ==
    /\ pc = "walmartDeals.stores"
    /\ \E resp \in LocateResponses(RawWalmartStores) :
        LET stores == searchWalmartStores(resp) IN
        IF Len(stores) = 0
        THEN /\ AfterWalmartDeals(deals)
             /\ UNCHANGED wlog
        ELSE /\ pc' = "walmartDeals.items"
             /\ dealStores' = stores
             /\ dealIdx' = 1
             /\ provDeals' = <<>>
             /\ wlog' = IssueNext(wlog, WalmartLookups(env, stores), 1)
             /\ UNCHANGED <<deals, result, klog>>
    /\ UNCHANGED <<env, catalog, krogerToken, hasWalmart, kpc, wpc, krogerLocations,
                   walmartStores, krogerItem, walmartItem>>
    /\ UNCHANGED exceptFetch

\* getWalmartDeals: the answer for store dealIdx (walmart.ts:193-206, index.ts:92)
WalmartDealsItemResponse ==
    /\ pc = "walmartDeals.items"
    /\ \E resp \in ProductResponses(catalog) :
        LET store == dealStores[dealIdx]
            product == getWalmartProductByUPC(Upc, store.id, resp)
            found == IF IsSome(product) /\ PriceTruthy(Val(product).price)
                     THEN Append(provDeals,
                                 MkDeal(Val(product), Val(Val(product).store)))
                     ELSE provDeals
        IN  IF dealIdx < Len(dealStores)
            THEN /\ provDeals' = found
                 /\ dealIdx' = dealIdx + 1
                 /\ wlog' = IssueNext(wlog, WalmartLookups(env, dealStores), dealIdx + 1)
                 /\ UNCHANGED <<pc, dealStores, deals, result, klog>>
            ELSE /\ AfterWalmartDeals(deals \o SortByPrice(found))
                 /\ UNCHANGED wlog
    /\ UNCHANGED <<env, catalog, krogerToken, hasWalmart, kpc, wpc, krogerLocations,
                   walmartStores, krogerItem, walmartItem>>
    /\ UNCHANGED exceptFetch

\* getKrogerDeals: the locations answer (kroger.ts:188-191)
KrogerDealsLocationsResponse ==
    /\ pc = "krogerDeals.locations"
    /\ \E resp \in LocateResponses(RawKrogerLocations) :
        LET locs == searchKrogerLocations(resp) IN
        IF Len(locs) = 0
        THEN /\ Finish(deals)
             /\ UNCHANGED <<dealStores, dealIdx, provDeals, klog>>
        ELSE /\ pc' = "krogerDeals.products"
             /\ dealStores' = locs
             /\ dealIdx' = 1
             /\ provDeals' = <<>>
             /\ klog' = IssueNext(klog, KrogerLookups(locs, krogerToken), 1)
             /\ UNCHANGED <<deals, result>>
    /\ UNCHANGED <<env, catalog, krogerToken, hasWalmart, kpc, wpc, krogerLocations,
                   walmartStores, krogerItem, walmartItem, wlog>>
    /\ UNCHANGED exceptFetch

\* getKrogerDeals: the answer for location dealIdx (kroger.ts:190-204, index.ts:102-111)
KrogerDealsProductResponse ==
    /\ pc = "krogerDeals.products"
    /\ \E resp \in ProductResponses(catalog) :
        LET loc == dealStores[dealIdx]
            product == getKrogerProductByUPC(Upc, resp)
            found == IF IsSome(product) /\ PriceTruthy(Val(product).price)
                     THEN Append(provDeals, MkDeal(Val(product), KrogerLabel(loc.name)))
                     ELSE provDeals
        IN  IF dealIdx < Len(dealStores)
            THEN /\ provDeals' = found
                 /\ dealIdx' = dealIdx + 1
                 /\ klog' = IssueNext(klog, KrogerLookups(dealStores, krogerToken), dealIdx + 1)
                 /\ UNCHANGED <<pc, dealStores, deals, result>>
            ELSE /\ Finish(deals \o SortByPrice(found))
                 /\ provDeals' = found
                 /\ UNCHANGED <<dealStores, dealIdx, klog>>
    /\ UNCHANGED <<env, catalog, krogerToken, hasWalmart, kpc, wpc, krogerLocations,
                   walmartStores, krogerItem, walmartItem, wlog>>
    /\ UNCHANGED exceptFetch

(***************************************************************************)
(* The resolution of one scan: any configuration, any provider answers.    *)
(***************************************************************************)
\* an item no adapter has produced yet: the evaluator is not part of Spec
IdleItem == MkItem(Upc, 0, <<>>, FALSE)

\* the resolution before the call
FetchIdle ==
    /\ pc = "start"
    /\ krogerToken = None
    /\ hasWalmart = FALSE
    /\ kpc = "idle"
    /\ wpc = "idle"
    /\ krogerLocations = None
    /\ walmartStores = None
    /\ krogerItem = None
    /\ walmartItem = None
    /\ dealStores = <<>>
    /\ dealIdx = 0
    /\ provDeals = <<>>
    /\ deals = <<>>
    /\ result = None
    /\ klog = <<>>
    /\ wlog = <<>>

\* no secret defined
NoEnv == [KROGER_CLIENT_ID |-> "unset", KROGER_CLIENT_SECRET |-> "unset",
          WALMART_PUBLISHER_ID |-> "unset"]

\* the evaluator not in use
EvalIdle ==
    /\ scanned = IdleItem
    /\ offers = <<>>
    /\ evaluated = None
    /\ reevaluated = None

\* useState<Item[]>([]) (walmart.ts:297)
HistoryInit ==
    /\ history = <<>>
    /\ added = <<>>

\* no adapter operation singled out
AdapterIdle ==
    /\ op = "none"
    /\ response = None
    /\ outcome = None

\* searchProducts before the call
SearchIdle ==
    /\ spc = "start"
    /\ results = <<>>
    /\ krogerFound = <<>>
    /\ walmartFound = <<>>
    /\ searchLocation = None
    /\ searchItems = <<>>
    /\ searchResult = None

\* no screen mounted
ScannerIdle ==
    /\ isProcessing = FALSE
    /\ handler = [isProcessing |-> FALSE, locationPermission |-> "loading"]
    /\ scans = <<>>
    /\ error = "none"
    /\ modalOpen = FALSE
ScreenIdle ==
    /\ query = ""
    /\ screenResults = <<>>
    /\ effects = <<>>
    /\ dirty = FALSE
UiIdle ==
    /\ ScannerIdle
    /\ ScreenIdle
    /\ locationPermission = "loading"

Init ==
    /\ env \in [KROGER_CLIENT_ID : {"unset", "set"},
                KROGER_CLIENT_SECRET : {"unset", "set"},
                WALMART_PUBLISHER_ID : EnvValues]
    /\ FetchIdle
    /\ calls = 1
    /\ UiIdle
    /\ catalog = PlainCatalog
    /\ EvalIdle
    /\ HistoryInit
    /\ AdapterIdle
    /\ SearchIdle

Next ==
    \/ Call
    \/ TokenResponse
    \/ KrogerLocationsResponse
    \/ KrogerProductResponse
    \/ WalmartStoresResponse
    \/ WalmartItemResponse
    \/ Join
    \/ WalmartDealsStoresResponse
    \/ WalmartDealsItemResponse
    \/ KrogerDealsLocationsResponse
    \/ KrogerDealsProductResponse

Spec == Init /\ [][Next]_vars

(***************************************************************************)
(* evaluateDeal (src/unnamed/part_002:25-53).                              *)
(***************************************************************************)
\* margin = 0.05, in percent
MarginPct == 5

Abs(x) == IF x < 0 THEN -x ELSE x
Min(a, b) == IF a < b THEN a ELSE b

\* the mutant of WithinMargin: the difference is not taken absolute
WithinMarginSigned(d, s) == (d - s) * 100 <= MarginPct * s
\* the mutant of WithinMarginOfCheapest: the boundary itself is excluded
StrictlyWithinMarginOfCheapest(s, cheapest) == s * 100 < cheapest * (100 + MarginPct)
\* the mutant of WithinMarginOfCheapest: twice the margin is allowed
WithinTwiceMarginOfCheapest(s, cheapest) == s * 100 <= cheapest * (100 + 2 * MarginPct)
\* the mutant of Slice: one element too many
SliceOneMore(s, n) == SubSeq(s, 1, Min(n + 1, Len(s)))

\* Array.prototype.slice(0, n)
Slice(s, n) == SubSeq(s, 1, Min(n, Len(s)))

\* Math.abs(d - s) / s <= margin, as IEEE division decides it: for s = 0 the
\* quotient is Infinity or NaN and the comparison is false, for s < 0 the quotient
\* is not positive and the comparison is true
WithinMargin(d, s) ==
    IF s > 0 THEN Abs(d - s) * 100 <= MarginPct * s
    ELSE s < 0

\* scanned.price <= cheapest.price * (1 + margin)
WithinMarginOfCheapest(s, cheapest) == s * 100 <= cheapest * (100 + MarginPct)

\* the mutant of DealTagOf: an empty offer list always gives DEAL
DealTagOverwritten(item, ds) ==
    IF Len(ds) > 0
    THEN IF item.price <= ds[1].price THEN "DEAL"
         ELSE IF WithinMarginOfCheapest(item.price, ds[1].price) THEN "SO-SO"
         ELSE "NO DEAL"
    ELSE "DEAL"
\* `tag` at the return (part_002:30-49)
DealTagOf(item, ds) ==
    IF Len(ds) > 0
    THEN IF item.price <= ds[1].price THEN "DEAL"
         ELSE IF WithinMarginOfCheapest(item.price, ds[1].price) THEN "SO-SO"
         ELSE "NO DEAL"
    ELSE IF item.tag = NoTag THEN "DEAL" ELSE item.tag

\* the mutant of RecommendationsOf: the new recommendations are appended to the
\* ones the item carries
RecommendationsAppended(item, ds) ==
    LET old == IF IsSome(item.recommendations) THEN Val(item.recommendations) ELSE <<>>
    IN  IF Len(ds) > 0
        THEN IF item.price <= ds[1].price THEN Some(old \o Slice(ds, 2))
             ELSE IF WithinMarginOfCheapest(item.price, ds[1].price)
             THEN Some(old \o SelectSeq(ds, LAMBDA d : WithinMargin(d.price, item.price)))
             ELSE Some(old \o Slice(ds, 3))
        ELSE None
\* `recommendations` at the return (part_002:31-50)
RecommendationsOf(item, ds) ==
    IF Len(ds) > 0
    THEN IF item.price <= ds[1].price THEN Some(Slice(ds, 2))
         ELSE IF WithinMarginOfCheapest(item.price, ds[1].price)
         THEN Some(SelectSeq(ds, LAMBDA d : WithinMargin(d.price, item.price)))
         ELSE Some(Slice(ds, 3))
    ELSE None

\* the mutant of evaluateDeal: the result is built without the item's store
evaluateDealWithoutStore(item, ds) ==
    [item EXCEPT !.tag = DealTagOf(item, ds),
                 !.recommendations = RecommendationsOf(item, ds),
                 !.store = None]
\* { ...scanned, tag, recommendations }
evaluateDeal(item, ds) ==
    [item EXCEPT !.tag = DealTagOf(item, ds),
                 !.recommendations = RecommendationsOf(item, ds)]

(***************************************************************************)
(* The evaluator on its own: every item and every offer list.              *)
(***************************************************************************)
\* prices of the items and offers handed to the evaluator (cents)
EvalPrices == {-20, 0, 20, 21, 22}

RECURSIVE SeqsUpTo(_, _)
SeqsUpTo(S, n) ==
    IF n = 0 THEN {<<>>}
    ELSE {<<>>} \cup {<<x>> \o t : x \in S, t \in SeqsUpTo(S, n - 1)}

EvalOffers ==
    {[id |-> Upc, name |-> ProductName, price |-> p,
      store |-> WalmartLabel(<<"1">>), distance |-> None] : p \in EvalPrices}

EvalItems ==
    {[MkItem(Upc, p, <<"A">>, FALSE) EXCEPT !.tag = t, !.recommendations = r] :
        p \in EvalPrices, t \in DealTags \cup {NoTag},
        r \in {None, Some(<<CHOOSE d \in EvalOffers : d.price = 22>>)}}

EvalInit ==
    /\ env = NoEnv
    /\ FetchIdle
    /\ calls = 1
    /\ UiIdle
    /\ catalog = PlainCatalog
    /\ HistoryInit
    /\ AdapterIdle
    /\ SearchIdle
    /\ scanned \in EvalItems
    /\ offers \in SeqsUpTo(EvalOffers, MaxOffers)
    /\ evaluated = None
    /\ reevaluated = None

\* evaluateDeal(scanned, offers)
Evaluate ==
    /\ evaluated = None
    /\ evaluated' = Some(evaluateDeal(scanned, offers))
    /\ UNCHANGED <<scanned, offers, reevaluated>>
    /\ UNCHANGED exceptEval

\* evaluateDeal applied again, to its own result and the same offers
Reevaluate ==
    /\ IsSome(evaluated)
    /\ reevaluated = None
    /\ reevaluated' = Some(evaluateDeal(Val(evaluated), offers))
    /\ UNCHANGED <<scanned, offers, evaluated>>
    /\ UNCHANGED exceptEval

EvalNext == Evaluate \/ Reevaluate

EvalSpec == EvalInit /\ [][EvalNext]_vars

(***************************************************************************)
(* Properties of fetchProductWithDeals, checked under Spec.                *)
(***************************************************************************)
(* The scan history (HistoryProvider): any sequence of addItem and clear.  *)
(***************************************************************************)
\* the longest history explored
MaxHistory == 4

\* the items scanned: all of one id, so that every second addItem repeats an id
HistoryItems == {MkItem(Upc, p, <<"A">>, FALSE) : p \in Prices}

\* [item, ...prev] with the new item last instead of first
Appended(item, prev) == Append(prev, item)
\* (prev) => [item, ...prev]
Prepended(item, prev) == <<item>> \o prev

\* addItem(item): setHistory(prev => [item, ...prev])
addItem ==
    /\ Len(history) < MaxHistory
    /\ \E item \in HistoryItems :
          /\ history' = Prepended(item, history)
          /\ added' = Append(added, item)
    /\ UNCHANGED exceptHistory

\* clear(): setHistory([])
clear ==
    /\ history' = <<>>
    /\ added' = <<>>
    /\ UNCHANGED exceptHistory

HistoryNext == addItem \/ clear

\* the provider as mounted; the pipeline and the evaluator are not part of HistorySpec
HistoryStart ==
    /\ env = NoEnv
    /\ FetchIdle
    /\ calls = 1
    /\ UiIdle
    /\ catalog = PlainCatalog
    /\ EvalIdle
    /\ AdapterIdle
    /\ SearchIdle
    /\ HistoryInit

HistorySpec == HistoryStart /\ [][HistoryNext]_vars

(***************************************************************************)
(* searchProducts (index.ts:123-152): the token, then the Kroger search,    *)
(* then the Walmart search, one after the other.  One action per provider  *)
(* answer.                                                                 *)
(***************************************************************************)
\* the longest list a search answers with
MaxFound == 2

\* the records of a search answer: the product identifier and the price the
\* adapter's price extraction resolves the record to
SearchRecords == {[upc |-> u, price |-> 20, isOrganic |-> FALSE] : u \in {<<"7">>, <<"8">>}}
SearchResponses ==
    {[ok |-> FALSE, data |-> <<>>]}
        \cup {[ok |-> TRUE, data |-> d] : d \in SeqsUpTo(SearchRecords, MaxFound)}

\* store.name ?? store.storeType ?? 'Walmart Store' for a payload without names
WalmartStoreName == <<"W", "a", "l", "m", "a", "r", "t", " ", "S", "t", "o", "r", "e">>

KrogerSearchRequest(locationId, token) ==
    [kind |-> "search", store |-> locationId, bearer |-> token]
WalmartSearchRequest(e) ==
    [kind |-> "search", store |-> <<>>, zipCode |-> None,
     publisherId |-> TrimTruthy(e.WALMART_PUBLISHER_ID)]

\* searchKrogerProducts: the answer mapped to Items of the first location
searchKrogerProducts(resp, loc) ==
    IF ~resp.ok THEN <<>>
    ELSE [i \in 1..Len(resp.data) |->
            [MkItem(resp.data[i].upc, resp.data[i].price, loc.name, resp.data[i].isOrganic)
                EXCEPT !.coordinates = Some(loc.coordinates)]]

\* searchWalmartProducts: the items mapped to Items of the default store
searchWalmartProducts(items, stores) ==
    [i \in 1..Len(items) |->
        MkItem(items[i].upc, items[i].price,
               IF stores = <<>> THEN WalmartLabel(<<>>) ELSE WalmartLabel(WalmartStoreName),
               items[i].isOrganic)]

\* results.push(...more) with the new elements in front
PushedInFront(list, more) == more \o list
\* results.push(...more)
Pushed(list, more) == list \o more

\* index.ts:132-151 from the end of the Kroger stage, which found `found`
AfterKrogerSearch(found) ==
    /\ krogerFound' = found
    /\ results' = Pushed(results, found)
    /\ IF Truthy(env.WALMART_PUBLISHER_ID)
       THEN /\ spc' = "walmart.search"
            /\ wlog' = Append(wlog, WalmartSearchRequest(env))
            /\ UNCHANGED searchResult
       ELSE /\ spc' = "done"
            /\ searchResult' = Some(Pushed(results, found))
            /\ UNCHANGED wlog
    /\ UNCHANGED <<walmartFound, searchItems>>

\* searchProducts(term, latitude, longitude): up to the first request
SearchCall ==
    /\ spc = "start"
    /\ pc = "start"
    /\ IF KrogerConfigured(env)
       THEN /\ spc' = "token"
            /\ klog' = Append(klog, KrogerTokenRequest)
            /\ UNCHANGED <<krogerToken, hasWalmart, wlog, results, krogerFound,
                           walmartFound, searchLocation, searchItems, searchResult>>
       ELSE /\ krogerToken' = None
            /\ hasWalmart' = Truthy(env.WALMART_PUBLISHER_ID)
            /\ AfterKrogerSearch(<<>>)
            /\ UNCHANGED <<klog, searchLocation>>
    /\ UNCHANGED <<env, catalog>>
    /\ UNCHANGED exceptSearch

\* the token endpoint answers (index.ts:129-132)
SearchTokenResponse ==
    /\ spc = "token"
    /\ \E resp \in TokenResponses(calls) :
        LET token == KrogerTokenOf(resp) IN
        /\ krogerToken' = token
        /\ hasWalmart' = Truthy(env.WALMART_PUBLISHER_ID)
        /\ IF IsSome(token)
           THEN /\ spc' = "kroger.locations"
                /\ klog' = Append(klog, KrogerLocateRequest(token))
                /\ UNCHANGED <<wlog, results, krogerFound, walmartFound, searchLocation,
                               searchItems, searchResult>>
           ELSE /\ AfterKrogerSearch(<<>>)
                /\ UNCHANGED <<klog, searchLocation>>
    /\ UNCHANGED <<env, catalog>>
    /\ UNCHANGED exceptSearch

\* searchKrogerProducts: the locations answer (kroger.ts:221-232)
SearchKrogerLocationsResponse ==
    /\ spc = "kroger.locations"
    /\ \E resp \in LocateResponses(RawKrogerLocations) :
        LET locs == searchKrogerLocations(resp) IN
        IF Len(locs) = 0
        THEN /\ AfterKrogerSearch(<<>>)
             /\ UNCHANGED <<klog, searchLocation>>
        ELSE /\ spc' = "kroger.products"
             /\ searchLocation' = Some(locs[1])
             /\ klog' = Append(klog, KrogerSearchRequest(locs[1].locationId, krogerToken))
             /\ UNCHANGED <<wlog, results, krogerFound, walmartFound, searchItems,
                            searchResult>>
    /\ UNCHANGED <<env, catalog, krogerToken, hasWalmart>>
    /\ UNCHANGED exceptSearch

\* searchKrogerProducts: the products answer (kroger.ts:233-256), then index.ts:140
SearchKrogerProductsResponse ==
    /\ spc = "kroger.products"
    /\ \E resp \in SearchResponses :
          AfterKrogerSearch(searchKrogerProducts(resp, Val(searchLocation)))
    /\ UNCHANGED <<env, catalog, krogerToken, hasWalmart, klog, searchLocation>>
    /\ UNCHANGED exceptSearch

\* searchWalmartProducts: the search answer (walmart.ts:228-232)
SearchWalmartItemsResponse ==
    /\ spc = "walmart.search"
    /\ \E resp \in SearchResponses :
        IF ~resp.ok
        THEN /\ spc' = "done"
             /\ walmartFound' = <<>>
             /\ results' = Pushed(results, <<>>)
             /\ searchResult' = Some(Pushed(results, <<>>))
             /\ UNCHANGED <<wlog, searchItems>>
        ELSE /\ spc' = "walmart.stores"
             /\ searchItems' = resp.data
             /\ wlog' = Append(wlog, WalmartStoresRequest(env))
             /\ UNCHANGED <<results, walmartFound, searchResult>>
    /\ UNCHANGED <<env, catalog, krogerToken, hasWalmart, klog, krogerFound, searchLocation>>
    /\ UNCHANGED exceptSearch

\* searchWalmartProducts: the stores answer (walmart.ts:232-258), then index.ts:149-151
SearchWalmartStoresResponse ==
    /\ spc = "walmart.stores"
    /\ \E resp \in LocateResponses(RawWalmartStores) :
        LET found == searchWalmartProducts(searchItems, searchWalmartStores(resp)) IN
        /\ walmartFound' = found
        /\ results' = Pushed(results, found)
        /\ searchResult' = Some(Pushed(results, found))
    /\ spc' = "done"
    /\ UNCHANGED <<env, catalog, krogerToken, hasWalmart, klog, wlog, krogerFound, searchLocation,
                   searchItems>>
    /\ UNCHANGED exceptSearch

SearchInit ==
    /\ env \in [KROGER_CLIENT_ID : {"unset", "set"},
                KROGER_CLIENT_SECRET : {"unset", "set"},
                WALMART_PUBLISHER_ID : EnvValues]
    /\ FetchIdle
    /\ calls = 1
    /\ UiIdle
    /\ catalog = PlainCatalog
    /\ EvalIdle
    /\ HistoryInit
    /\ AdapterIdle
    /\ SearchIdle

SearchNext ==
    \/ SearchCall
    \/ SearchTokenResponse
    \/ SearchKrogerLocationsResponse
    \/ SearchKrogerProductsResponse
    \/ SearchWalmartItemsResponse
    \/ SearchWalmartStoresResponse

SearchSpec == SearchInit /\ [][SearchNext]_vars

(***************************************************************************)
(* The adapters on raw provider payloads.  A JSON value carries its type,  *)
(* so that the coercions of the code (??, Number, !=null, method calls on  *)
(* a value of the wrong type) are computed.  An operation ends by          *)
(* returning a value or by raising (its promise rejects).  Amounts are in  *)
(* cents, in numbers and in numeric text alike.  Of the alternative field  *)
(* names the code accepts (no/storeId/id, name/title/shortName, ...) the   *)
(* first is modelled.                                                      *)
(***************************************************************************)
\* the cap both adapters ask the provider for (filter.limit, numItems)
SearchLimit == 20

Undefined == [t |-> "undefined"]
Null == [t |-> "null"]
NaN == [t |-> "NaN"]
Num(n) == [t |-> "number", num |-> n]
Str(q) == [t |-> "string", str |-> q]
Arr(q) == [t |-> "array", arr |-> q]
\* a JSON object holds its fields next to its type; NotAList is one that is no
\* array, where the code expects a list
NotAList == [t |-> "object"]
\* a response body { data: ... }
Body(data) == [t |-> "object", data |-> data]

\* x == null, x == undefined
Nullish(x) == x.t \in {"undefined", "null"}
\* a ?? b
Coalesce(a, b) == IF Nullish(a) THEN b ELSE a

Digits == <<"0", "1", "2", "3", "4", "5", "6", "7", "8", "9">>
IsDigit(c) == \E d \in 1..10 : Digits[d] = c
DigitVal(c) == (CHOOSE d \in 1..10 : Digits[d] = c) - 1
AllDigits(q) == q # <<>> /\ \A k \in 1..Len(q) : IsDigit(q[k])
RECURSIVE DigitsValue(_)
DigitsValue(q) ==
    IF q = <<>> THEN 0
    ELSE DigitsValue(SubSeq(q, 1, Len(q) - 1)) * 10 + DigitVal(q[Len(q)])

\* Number(x) for the values a price field may hold
Number(x) ==
    CASE x.t = "number" -> x
      [] x.t = "null" -> Num(0)
      [] x.t = "string" ->
            IF x.str = <<>> THEN Num(0)
            ELSE IF AllDigits(x.str) THEN Num(DigitsValue(x.str))
            ELSE IF x.str[1] = "-" /\ AllDigits(Tail(x.str)) THEN Num(0 - DigitsValue(Tail(x.str)))
            ELSE NaN
      [] OTHER -> NaN

UnknownProduct == <<"U", "n", "k", "n", "o", "w", "n">>

\* Number(priceInfo.promo ?? priceInfo.regular ?? 0)   (kroger.ts:164, 252)
KrogerPrice(priceInfo) ==
    Number(Coalesce(priceInfo.promo, Coalesce(priceInfo.regular, Num(0))))

\* the price fields of a Walmart record in the order the code lists them
PriceFields(r) == <<r.salePrice, r.listPrice, r.msrp, r.price>>
\* p != null ? Number(p) : NaN
NumberOrNaN(x) == IF Nullish(x) THEN NaN ELSE Number(x)
\* priceFields.map(...).find(p => !Number.isNaN(p)) ?? 0   (walmart.ts:152-161)
WalmartPrice(r) ==
    LET nums == [k \in 1..4 |-> NumberOrNaN(PriceFields(r)[k])]
        hits == {k \in 1..4 : nums[k] # NaN}
    IN  IF hits = {} THEN Num(0)
        ELSE nums[CHOOSE k \in hits : \A h \in hits : k <= h]

\* how an operation ends
Raised == [raised |-> TRUE]
Value(v) == [raised |-> FALSE, value |-> v]

\* a response that is no JSON body: the request failed or the status is not 2xx
Failed(resp) == resp.status # "ok"

\* the Item an adapter builds; its price is what the extraction gave
RawItem(id, name, price, store, isOrganic) ==
    [id |-> id, name |-> name, price |-> price, store |-> store, isOrganic |-> isOrganic]

\* getKrogerAccessToken: everything inside one try
KrogerTokenOutcome(resp) ==
    IF Failed(resp) \/ Nullish(resp.body) THEN Value(None)
    ELSE IF Nullish(resp.body.access_token) THEN Value(None)
    ELSE Value(Some(resp.body.access_token))

\* loc.address?.name ?? loc.locationId
KrogerLocationOf(loc) ==
    [locationId |-> loc.locationId, name |-> Coalesce(loc.name, loc.locationId)]

\* searchKrogerLocations: the map is inside the try, a throw gives []
KrogerLocationsOutcome(resp) ==
    IF Failed(resp) \/ Nullish(resp.body) THEN Value(<<>>)
    ELSE LET locations == Coalesce(resp.body.data, Arr(<<>>))
         IN  IF locations.t # "array" THEN Value(<<>>)
             ELSE IF \E k \in 1..Len(locations.arr) : Nullish(locations.arr[k]) THEN Value(<<>>)
             ELSE Value([k \in 1..Len(locations.arr) |-> KrogerLocationOf(locations.arr[k])])

\* item.attributes?.some(attr => attr.toLowerCase().includes('organic')) ?? false
\* is TRUE, FALSE or a throw (an attribute that is no string)
KrogerOrganicThrows(item) ==
    /\ item.attributes.t = "array"
    /\ \E k \in 1..Len(item.attributes.arr) :
          /\ item.attributes.arr[k].t # "string"
          /\ \A h \in 1..(k - 1) : ~Includes(toLowerCase(item.attributes.arr[h].str), Organic)
KrogerOrganic(item) ==
    /\ item.attributes.t = "array"
    /\ \E k \in 1..Len(item.attributes.arr) :
          /\ item.attributes.arr[k].t = "string"
          /\ Includes(toLowerCase(item.attributes.arr[k].str), Organic)

\* the Item of one Kroger record (kroger.ts:150-169, 239-256)
KrogerItemOf(id, item, store) ==
    RawItem(id, Coalesce(item.description, Str(UnknownProduct)), KrogerPrice(item),
            store, KrogerOrganic(item))

\* getKrogerProductByUPC: everything inside one try, a throw gives null
KrogerProductOutcome(upc, resp) ==
    IF Failed(resp) \/ Nullish(resp.body) THEN Value(None)
    ELSE LET data == resp.body.data
         IN  IF data.t # "array" \/ data.arr = <<>> THEN Value(None)
             ELSE IF Nullish(data.arr[1]) THEN Value(None)
             ELSE IF KrogerOrganicThrows(data.arr[1]) THEN Value(None)
             ELSE Value(Some(KrogerItemOf(Str(upc), data.arr[1],
                                         Str(<<"K", "r", "o", "g", "e", "r">>))))

\* searchKrogerProducts: locate, then the search inside one try; every record
\* of the answer is mapped
KrogerSearchOutcome(locateResp, resp) ==
    LET locations == KrogerLocationsOutcome(locateResp).value
    IN  IF locations = <<>> THEN Value(<<>>)
        ELSE IF Failed(resp) \/ Nullish(resp.body) THEN Value(<<>>)
        ELSE LET data == Coalesce(resp.body.data, Arr(<<>>))
             IN  IF data.t # "array" THEN Value(<<>>)
                 ELSE IF \E k \in 1..Len(data.arr) :
                            Nullish(data.arr[k]) \/ KrogerOrganicThrows(data.arr[k])
                      THEN Value(<<>>)
                 ELSE Value([k \in 1..Len(data.arr) |->
                               KrogerItemOf(Coalesce(data.arr[k].upc, Str(<<>>)), data.arr[k],
                                            locations[1].name)])

\* { id: store.no ?? '', name: store.name ?? 'Walmart Store', zipCode: store.zip }
WalmartStoreOf(store) ==
    [id |-> Coalesce(store.no, Str(<<>>)),
     name |-> Coalesce(store.name, Str(<<"W">>)),
     zipCode |-> store.zip]

\* searchWalmartStores: fetchWalmartJSON catches the request, the map is outside
\* any try (walmart.ts:115-121)
WalmartStoresOutcome(resp) ==
    IF Failed(resp) \/ Nullish(resp.body) THEN Value(<<>>)
    ELSE LET stores == Coalesce(resp.body.data, Arr(<<>>))
         IN  IF stores.t # "array" THEN Raised
             ELSE IF \E k \in 1..Len(stores.arr) : Nullish(stores.arr[k]) THEN Raised
             ELSE Value([k \in 1..Len(stores.arr) |-> WalmartStoreOf(stores.arr[k])])

\* name.toLowerCase() on a name that is no string
WalmartNameThrows(item) == Coalesce(item.name, Str(UnknownProduct)).t # "string"

\* the Item of one Walmart record (walmart.ts:146-176, 235-257)
WalmartItemOf(id, item, store) ==
    LET name == Coalesce(item.name, Str(UnknownProduct))
    IN  RawItem(id, name, WalmartPrice(item), store, Includes(toLowerCase(name.str), Organic))

\* getWalmartProductByUPC: nothing after fetchWalmartJSON is inside a try
WalmartProductOutcome(upc, resp) ==
    IF Failed(resp) \/ Nullish(resp.body) THEN Value(None)
    ELSE LET items == resp.body.data
         IN  IF items.t # "array" \/ items.arr = <<>> THEN Value(None)
             ELSE IF Nullish(items.arr[1]) THEN Value(None)
             ELSE IF WalmartNameThrows(items.arr[1]) THEN Raised
             ELSE Value(Some(WalmartItemOf(Str(upc), items.arr[1], Str(<<"W">>))))

\* searchWalmartProducts: the search, then the store-locate, then the map of
\* every record, outside any try (walmart.ts:226-258)
WalmartSearchOutcome(resp, storesResp) ==
    IF Failed(resp) \/ Nullish(resp.body) THEN Value(<<>>)
    ELSE LET items == Coalesce(resp.body.data, Arr(<<>>))
             stores == WalmartStoresOutcome(storesResp)
         IN  IF stores = Raised THEN Raised
             ELSE IF items.t # "array" THEN Raised
             ELSE IF \E k \in 1..Len(items.arr) :
                        Nullish(items.arr[k]) \/ WalmartNameThrows(items.arr[k])
                  THEN Raised
             ELSE Value([k \in 1..Len(items.arr) |->
                           WalmartItemOf(Coalesce(items.arr[k].upc, Str(<<>>)), items.arr[k],
                              IF stores.value = <<>> THEN Str(<<"W">>)
                              ELSE stores.value[1].name)])

\* what a price field may hold: absent, null, numbers (zero, positive, negative),
\* text that is no number, text that is one
PriceValues ==
    {Undefined, Null, Num(0), Num(329), Num(0 - 100), Str(<<"a">>), Str(<<"1", "9", "9">>)}

\* a Kroger product record with the given prices
KrogerRecord(promo, regular) ==
    [t |-> "object", upc |-> Str(Upc), description |-> Str(ProductName),
     attributes |-> Undefined, promo |-> promo, regular |-> regular]
KrogerRecords ==
    {KrogerRecord(a, b) : a, b \in PriceValues}
    \cup {[KrogerRecord(Num(329), Undefined) EXCEPT !.attributes = x] :
             x \in {Arr(<<Str(OrganicName)>>), Arr(<<Num(1)>>), Arr(<<>>)}}
    \cup {[KrogerRecord(Num(329), Undefined) EXCEPT !.description = Undefined, !.upc = Undefined]}

\* a Walmart product record with the given prices
WalmartRecord(sale, list, msrp, price) ==
    [t |-> "object", upc |-> Str(Upc), name |-> Str(ProductName),
     salePrice |-> sale, listPrice |-> list, msrp |-> msrp, price |-> price]
WalmartRecords ==
    {WalmartRecord(a, b, c, d) : a, b \in PriceValues, c, d \in {Undefined, Num(329), Str(<<"a">>)}}
    \cup {[WalmartRecord(Num(329), Undefined, Undefined, Undefined) EXCEPT !.name = x] :
             x \in {Str(OrganicName), Num(7), Undefined}}

\* the location and store records of a locate answer
KrogerLocationRecords ==
    {[t |-> "object", locationId |-> Str(<<"A">>), name |-> x] : x \in {Undefined, Str(<<"B">>)}}
WalmartStoreRecords ==
    {[t |-> "object", no |-> x, name |-> Str(<<"S">>), zip |-> Undefined] :
        x \in {Undefined, Str(<<"1">>)}}

\* the request failed, or was answered with a status that is not 2xx
Failures == {[status |-> "networkError"], [status |-> "notOk"]}
Ok(body) == [status |-> "ok", body |-> body]

\* n times the same record
Repeat(r, n) == [k \in 1..n |-> r]

\* the lists a body may hold where the code expects the records R: none, one
\* that is no array, an empty one, one with a null, one or two records
Lists(R) ==
    {Undefined, NotAList, Arr(<<>>), Arr(<<Null>>)}
    \cup {Arr(<<r>>) : r \in R}
\* the answers to a request for the records R
Answers(R) == Failures \cup {Ok(Null)} \cup {Ok(Body(l)) : l \in Lists(R)}

\* the records a search answers with: few kinds, any number up to one more than
\* the cap
KrogerSearchRecords ==
    {KrogerRecord(Num(329), Undefined), KrogerRecord(Str(<<"a">>), Num(329))}
WalmartSearchRecords ==
    {WalmartRecord(Undefined, Num(329), Undefined, Undefined),
     [WalmartRecord(Num(329), Undefined, Undefined, Undefined) EXCEPT !.name = Num(7)]}
SearchAnswers(R) ==
    Answers(R) \cup {Ok(Body(Arr(Repeat(r, n)))) : r \in R, n \in {2, SearchLimit, SearchLimit + 1}}

TokenAnswers ==
    Failures \cup {Ok(Null), Ok([t |-> "object", access_token |-> Undefined]),
                   Ok([t |-> "object", access_token |-> Str(<<"t">>)])}

\* the operations of the two adapters that parse a payload, each with the
\* answers it may get
AdapterInputs ==
    ({"getKrogerAccessToken"} \X TokenAnswers)
    \cup ({"searchKrogerLocations"} \X Answers(KrogerLocationRecords))
    \cup ({"getKrogerProductByUPC"} \X Answers(KrogerRecords))
    \cup ({"searchKrogerProducts"} \X
             {[locate |-> l, search |-> a] :
                 l \in {Ok(Body(Arr(<<>>)))} \cup {Ok(Body(Arr(<<r>>))) : r \in KrogerLocationRecords},
                 a \in SearchAnswers(KrogerSearchRecords)})
    \cup ({"searchWalmartStores"} \X Answers(WalmartStoreRecords))
    \cup ({"getWalmartProductByUPC"} \X Answers(WalmartRecords))
    \cup ({"searchWalmartProducts"} \X
             {[search |-> a, stores |-> l] :
                 a \in SearchAnswers(WalmartSearchRecords),
                 l \in {Ok(Body(NotAList))} \cup {Ok(Body(Arr(<<r>>))) : r \in WalmartStoreRecords}})

AdapterInit ==
    /\ env = NoEnv
    /\ FetchIdle
    /\ calls = 1
    /\ UiIdle
    /\ catalog = PlainCatalog
    /\ EvalIdle
    /\ HistoryInit
    /\ SearchIdle
    /\ \E input \in AdapterInputs : op = input[1] /\ response = input[2]
    /\ outcome = None

\* getKrogerAccessToken applied to its answer
KrogerTokenAnswered ==
    /\ op = "getKrogerAccessToken"
    /\ outcome = None
    /\ outcome' = Some(KrogerTokenOutcome(response))
    /\ UNCHANGED <<op, response>>
    /\ UNCHANGED exceptAdapter

\* searchKrogerLocations applied to its answer
KrogerLocationsAnswered ==
    /\ op = "searchKrogerLocations"
    /\ outcome = None
    /\ outcome' = Some(KrogerLocationsOutcome(response))
    /\ UNCHANGED <<op, response>>
    /\ UNCHANGED exceptAdapter

\* getKrogerProductByUPC applied to its answer
KrogerProductAnswered ==
    /\ op = "getKrogerProductByUPC"
    /\ outcome = None
    /\ outcome' = Some(KrogerProductOutcome(Upc, response))
    /\ UNCHANGED <<op, response>>
    /\ UNCHANGED exceptAdapter

\* searchKrogerProducts applied to the answers of its two requests
KrogerSearchAnswered ==
    /\ op = "searchKrogerProducts"
    /\ outcome = None
    /\ outcome' = Some(KrogerSearchOutcome(response.locate, response.search))
    /\ UNCHANGED <<op, response>>
    /\ UNCHANGED exceptAdapter

\* searchWalmartStores applied to its answer
WalmartStoresAnswered ==
    /\ op = "searchWalmartStores"
    /\ outcome = None
    /\ outcome' = Some(WalmartStoresOutcome(response))
    /\ UNCHANGED <<op, response>>
    /\ UNCHANGED exceptAdapter

\* getWalmartProductByUPC applied to its answer
WalmartProductAnswered ==
    /\ op = "getWalmartProductByUPC"
    /\ outcome = None
    /\ outcome' = Some(WalmartProductOutcome(Upc, response))
    /\ UNCHANGED <<op, response>>
    /\ UNCHANGED exceptAdapter

\* searchWalmartProducts applied to the answers of its two requests
WalmartSearchAnswered ==
    /\ op = "searchWalmartProducts"
    /\ outcome = None
    /\ outcome' = Some(WalmartSearchOutcome(response.search, response.stores))
    /\ UNCHANGED <<op, response>>
    /\ UNCHANGED exceptAdapter

AdapterNext ==
    \/ KrogerTokenAnswered
    \/ KrogerLocationsAnswered
    \/ KrogerProductAnswered
    \/ KrogerSearchAnswered
    \/ WalmartStoresAnswered
    \/ WalmartProductAnswered
    \/ WalmartSearchAnswered

AdapterSpec == AdapterInit /\ [][AdapterNext]_vars

(***************************************************************************)
(* One scan (handleBarcodeScanned from the call of fetchProductWithDeals   *)
(* on): the resolution, then evaluateDeal and addItem.  Both providers are *)
(* configured and the product exists in a plain and an organic variety.    *)
(***************************************************************************)
\* the records of the identifier: not organic, and organic by attribute and by name
ScanCatalog ==
    {[price |-> 20, name |-> ProductName, isOrganic |-> FALSE],
     [price |-> 20, name |-> OrganicName, isOrganic |-> TRUE]}

ScanInit ==
    /\ env = [KROGER_CLIENT_ID |-> "set", KROGER_CLIENT_SECRET |-> "set",
              WALMART_PUBLISHER_ID |-> "set"]
    /\ catalog = ScanCatalog
    /\ FetchIdle
    /\ calls = 1
    /\ UiIdle
    /\ EvalIdle
    /\ HistoryInit
    /\ AdapterIdle
    /\ SearchIdle

\* fetchProductWithDeals has resolved to a product: evaluateDeal(product, deals),
\* addItem(evaluated)  (part_002:89-102)
ScanResolved ==
    /\ pc = "done"
    /\ IsSome(result)
    /\ IsSome(Val(result).item)
    /\ evaluated = None
    /\ LET product == Val(Val(result).item)
           ds == Val(result).deals
       IN  /\ scanned' = product
           /\ offers' = ds
           /\ evaluated' = Some(evaluateDeal(product, ds))
           /\ history' = Prepended(evaluateDeal(product, ds), history)
           /\ added' = Append(added, evaluateDeal(product, ds))
    /\ UNCHANGED <<reevaluated, fetchVars, adapterVars, searchVars, calls, uiVars>>

ScanNext == Next \/ ScanResolved

ScanSpec == ScanInit /\ [][ScanNext]_vars

(***************************************************************************)
(* Calls one after the other: each call of fetchProductWithDeals or of     *)
(* searchProducts starts from its own locals (index.ts:35-37, 129-131);    *)
(* nothing in src/api outlives a call, getKrogerAccessToken keeps no token *)
(* (kroger.ts:30-73).  klog and wlog hold the requests of the call in      *)
(* progress.                                                               *)
(***************************************************************************)
\* calls made one after the other
MaxCalls == 2

\* the product one session asks for
SessionCatalog == {[price |-> 20, name |-> ProductName, isOrganic |-> FALSE]}

SessionInit ==
    /\ env \in [KROGER_CLIENT_ID : {"unset", "set"},
                KROGER_CLIENT_SECRET : {"unset", "set"},
                WALMART_PUBLISHER_ID : {"unset", "set"}]
    /\ catalog = SessionCatalog
    /\ FetchIdle
    /\ calls = 1
    /\ UiIdle
    /\ EvalIdle
    /\ HistoryInit
    /\ AdapterIdle
    /\ SearchIdle

\* the caller calls again after a call has resolved: new locals, no token
NewCall ==
    /\ pc = "done" \/ spc = "done"
    /\ calls < MaxCalls
    /\ calls' = calls + 1
    /\ pc' = "start"
    /\ krogerToken' = None
    /\ hasWalmart' = FALSE
    /\ kpc' = "idle"
    /\ wpc' = "idle"
    /\ krogerLocations' = None
    /\ walmartStores' = None
    /\ krogerItem' = None
    /\ walmartItem' = None
    /\ dealStores' = <<>>
    /\ dealIdx' = 0
    /\ provDeals' = <<>>
    /\ deals' = <<>>
    /\ result' = None
    /\ klog' = <<>>
    /\ wlog' = <<>>
    /\ spc' = "start"
    /\ results' = <<>>
    /\ krogerFound' = <<>>
    /\ walmartFound' = <<>>
    /\ searchLocation' = None
    /\ searchItems' = <<>>
    /\ searchResult' = None
    /\ UNCHANGED <<env, catalog, evalVars, historyVars, adapterVars, uiVars>>

SessionNext == Next \/ SearchNext \/ NewCall

SessionSpec == SessionInit /\ [][SessionNext]_vars

(***************************************************************************)
(* The scanner modal (src/unnamed/part_002:55-111).                        *)
(*                                                                         *)
(* handleBarcodeScanned is a useCallback closure: it reads the values of   *)
(* isProcessing and locationPermission of the render that created it, for  *)
(* as long as it runs.  setProcessing and the permission hook set the      *)
(* state; the closure the camera calls changes at the next render.  An     *)
(* action is one run of the job queue: a barcode event, a render, or the   *)
(* settling of the promise an invocation awaits.                           *)
(***************************************************************************)
\* barcode events delivered while the scanner is open
MaxScans == 3

\* the permission state: null while the hook loads, else granted or not, and
\* if not, whether the system may ask again
PermissionStates == {"loading", "askable", "denied", "granted"}
\* locationPermission?.granted, locationPermission?.canAskAgain
Granted(p) == p = "granted"
CanAskAgain(p) == p \in {"askable", "granted"}
\* what the permission prompt may answer
PromptAnswers == {"granted", "denied", "askable"}

\* part_002:70-77, search.tsx:55-61: where the body goes first, for the
\* permission p it closes over: to getCurrentPositionAsync, to
\* requestLocationPermission, or on with coords = null
EnsureLocation(p) ==
    IF Granted(p) THEN "position"
    ELSE IF CanAskAgain(p) THEN "prompt"
    ELSE "nocoords"
\* part_002:78-86, search.tsx:62-69: after requestLocationPermission() has
\* resolved, the same p is tested again
AfterPrompt(p) == IF Granted(p) THEN "position" ELSE "nocoords"

\* an invocation that has not returned
Running(scan) == scan.at \in {"prompt", "position", "fetch"}

\* what fetchProductWithDeals settles to: a rejection (an adapter raised), no
\* product, a product with its offers
FetchOutcomes ==
    {[ok |-> FALSE, item |-> None, deals |-> <<>>],
     [ok |-> TRUE, item |-> None, deals |-> <<>>]}
        \cup {[ok |-> TRUE, item |-> Some(MkItem(Upc, 21, <<"A">>, FALSE)), deals |-> ds] :
                 ds \in {<<>>, <<MkDeal(MkItem(Upc, 20, <<"B">>, FALSE), WalmartLabel(<<"1">>))>>}}

ScannerInit ==
    /\ env = NoEnv
    /\ FetchIdle
    /\ catalog = PlainCatalog
    /\ calls = 1
    /\ EvalIdle
    /\ HistoryInit
    /\ AdapterIdle
    /\ SearchIdle
    /\ ScreenIdle
    /\ locationPermission \in PermissionStates
    /\ isProcessing = FALSE
    /\ handler = [isProcessing |-> FALSE, locationPermission |-> locationPermission]
    /\ scans = <<>>
    /\ error = "none"
    /\ modalOpen = TRUE

\* the camera reports a barcode: the installed closure runs up to its first
\* await (part_002:65-87)
BarcodeScanned ==
    /\ modalOpen
    /\ Len(scans) < MaxScans
    /\ IF handler.isProcessing
       THEN /\ scans' = Append(scans, [perm |-> handler.locationPermission,
                                        at |-> "ignored", asked |-> "none"])
            /\ UNCHANGED <<isProcessing, error>>
       ELSE LET at == EnsureLocation(handler.locationPermission) IN
            /\ scans' = Append(scans, [perm |-> handler.locationPermission,
                                        at |-> at, asked |-> "none"])
            /\ isProcessing' = (at # "nocoords")
            /\ error' = IF at = "nocoords" THEN "location" ELSE error
    /\ UNCHANGED <<locationPermission, handler, modalOpen, historyVars, screenVars>>
    /\ UNCHANGED exceptUi

\* the component renders again after a state change: useCallback makes a new
\* closure over the current state (part_002:109)
ScannerRender ==
    /\ modalOpen
    /\ handler # [isProcessing |-> isProcessing, locationPermission |-> locationPermission]
    /\ handler' = [isProcessing |-> isProcessing, locationPermission |-> locationPermission]
    /\ UNCHANGED <<isProcessing, locationPermission, scans, error, modalOpen,
                   historyVars, screenVars>>
    /\ UNCHANGED exceptUi

\* the permission hook has loaded the permission
ScannerPermissionLoaded ==
    /\ locationPermission = "loading"
    /\ locationPermission' \in PermissionStates \ {"loading"}
    /\ UNCHANGED <<isProcessing, handler, scans, error, modalOpen, historyVars, screenVars>>
    /\ UNCHANGED exceptUi

\* the user answers the prompt of invocation i: the hook sets the permission,
\* requestLocationPermission() resolves and the invocation goes on (part_002:76-87)
ScannerPromptAnswered ==
    \E i \in 1..Len(scans) :
        /\ scans[i].at = "prompt"
        /\ \E answer \in PromptAnswers :
            LET at == AfterPrompt(scans[i].perm) IN
            /\ locationPermission' = answer
            /\ scans' = [scans EXCEPT ![i].at = at, ![i].asked = answer]
            /\ isProcessing' = IF at = "nocoords" THEN FALSE ELSE isProcessing
            /\ error' = IF at = "nocoords" THEN "location" ELSE error
        /\ UNCHANGED <<handler, modalOpen, historyVars, screenVars>>
        /\ UNCHANGED exceptUi

\* getCurrentPositionAsync resolves for invocation i, fetchProductWithDeals is
\* called (part_002:72-73, 89)
ScannerPositionRead ==
    \E i \in 1..Len(scans) :
        /\ scans[i].at = "position"
        /\ scans' = [scans EXCEPT ![i].at = "fetch"]
        /\ UNCHANGED <<isProcessing, locationPermission, handler, error, modalOpen,
                       historyVars, screenVars>>
        /\ UNCHANGED exceptUi

\* fetchProductWithDeals settles for invocation i (part_002:89-108)
FetchSettled ==
    \E i \in 1..Len(scans) :
        /\ scans[i].at = "fetch"
        /\ \E settled \in FetchOutcomes :
            IF ~settled.ok
            THEN /\ scans' = [scans EXCEPT ![i].at = "failed"]
                 /\ error' = "failed"
                 /\ UNCHANGED <<modalOpen, historyVars>>
            ELSE IF ~IsSome(settled.item)
            THEN /\ scans' = [scans EXCEPT ![i].at = "notfound"]
                 /\ error' = "notfound"
                 /\ UNCHANGED <<modalOpen, historyVars>>
            ELSE /\ scans' = [scans EXCEPT ![i].at = "added"]
                 /\ history' = Prepended(evaluateDeal(Val(settled.item), settled.deals),
                                         history)
                 /\ added' = Append(added, evaluateDeal(Val(settled.item), settled.deals))
                 /\ modalOpen' = FALSE
                 /\ UNCHANGED error
        /\ isProcessing' = FALSE
        /\ UNCHANGED <<locationPermission, handler, screenVars>>
        /\ UNCHANGED exceptUi

ScannerNext ==
    \/ BarcodeScanned
    \/ ScannerRender
    \/ ScannerPermissionLoaded
    \/ ScannerPromptAnswered
    \/ ScannerPositionRead
    \/ FetchSettled

ScannerSpec == ScannerInit /\ [][ScannerNext]_vars

(***************************************************************************)
(* The search screen (src/app/(tabs)/search.tsx:24-84).                    *)
(*                                                                         *)
(* The effect runs after every render in which query or locationPermission *)
(* has changed: the cleanup of the previous run sets its `cancelled`, then *)
(* search() runs up to its first await.  A run closes over the query and   *)
(* the permission of its render.  An action is one run of the job queue.   *)
(***************************************************************************)
\* runs of the effect
MaxEffects == 4

\* query.trim(): empty, or one of two terms
Queries == {"", "a", "b"}

\* what searchProducts settles to for the term q: a rejection (an adapter
\* raised), no items, the items found for q
SearchOutcomes(q) ==
    {[ok |-> FALSE, items |-> <<>>], [ok |-> TRUE, items |-> <<>>],
     [ok |-> TRUE, items |-> <<q>>]}

\* search.tsx:49-53: where a run goes first
StartOfSearch(q, p) == IF q = "" THEN "empty" ELSE EnsureLocation(p)

\* a run that has not returned
Pending(run) == run.at \in {"prompt", "position", "search"}

ScreenInit ==
    /\ env = NoEnv
    /\ FetchIdle
    /\ catalog = PlainCatalog
    /\ calls = 1
    /\ EvalIdle
    /\ HistoryInit
    /\ AdapterIdle
    /\ SearchIdle
    /\ ScannerIdle
    /\ locationPermission \in PermissionStates
    /\ query = ""
    /\ screenResults = <<>>
    /\ effects = <<>>
    /\ dirty = TRUE

\* onChangeText={setQuery} (search.tsx:104)
ChangeQuery ==
    /\ Len(effects) < MaxEffects
    /\ \E q \in Queries \ {query} : query' = q
    /\ dirty' = TRUE
    /\ UNCHANGED <<screenResults, effects, locationPermission, scannerVars, historyVars>>
    /\ UNCHANGED exceptUi

\* the permission hook has loaded the permission
ScreenPermissionLoaded ==
    /\ locationPermission = "loading"
    /\ locationPermission' \in PermissionStates \ {"loading"}
    /\ dirty' = TRUE
    /\ UNCHANGED <<query, screenResults, effects, scannerVars, historyVars>>
    /\ UNCHANGED exceptUi

\* the render after a change and its effect: the cleanup of the previous run,
\* then search() up to its first await (search.tsx:46-70, 80-84)
RunEffect ==
    /\ dirty
    /\ Len(effects) < MaxEffects
    /\ LET at == StartOfSearch(query, locationPermission)
           run == [q |-> query, perm |-> locationPermission, cancelled |-> FALSE,
                   at |-> at, items |-> <<>>]
       IN  /\ effects' = Append([i \in 1..Len(effects) |->
                                    [effects[i] EXCEPT !.cancelled = TRUE]], run)
           /\ screenResults' = IF at \in {"empty", "nocoords"} THEN <<>> ELSE screenResults
    /\ dirty' = FALSE
    /\ UNCHANGED <<query, locationPermission, scannerVars, historyVars>>
    /\ UNCHANGED exceptUi

\* the user answers the prompt of run i: the hook sets the permission,
\* requestLocationPermission() resolves and the run goes on (search.tsx:60-70)
ScreenPromptAnswered ==
    \E i \in 1..Len(effects) :
        /\ effects[i].at = "prompt"
        /\ \E answer \in PromptAnswers : locationPermission' = answer
        /\ dirty' = TRUE
        /\ LET at == AfterPrompt(effects[i].perm) IN
           /\ effects' = [effects EXCEPT ![i].at = at]
           /\ screenResults' = IF at = "nocoords" THEN <<>> ELSE screenResults
        /\ UNCHANGED <<query, scannerVars, historyVars>>
        /\ UNCHANGED exceptUi

\* getCurrentPositionAsync resolves for run i, searchProducts is called
\* (search.tsx:57-58, 72-74)
ScreenPositionRead ==
    \E i \in 1..Len(effects) :
        /\ effects[i].at = "position"
        /\ effects' = [effects EXCEPT ![i].at = "search"]
        /\ UNCHANGED <<query, screenResults, dirty, locationPermission, scannerVars,
                       historyVars>>
        /\ UNCHANGED exceptUi

\* searchProducts settles for run i (search.tsx:73-78)
SearchSettled ==
    \E i \in 1..Len(effects) :
        /\ effects[i].at = "search"
        /\ \E settled \in SearchOutcomes(effects[i].q) :
            IF settled.ok
            THEN /\ effects' = [effects EXCEPT ![i].at = "resolved",
                                               ![i].items = settled.items]
                 /\ screenResults' = IF effects[i].cancelled THEN screenResults
                                     ELSE settled.items
            ELSE /\ effects' = [effects EXCEPT ![i].at = "rejected"]
                 /\ UNCHANGED screenResults
        /\ UNCHANGED <<query, dirty, locationPermission, scannerVars, historyVars>>
        /\ UNCHANGED exceptUi

ScreenNext ==
    \/ ChangeQuery
    \/ ScreenPermissionLoaded
    \/ RunEffect
    \/ ScreenPromptAnswered
    \/ ScreenPositionRead
    \/ SearchSettled

ScreenSpec == ScreenInit /\ [][ScreenNext]_vars

(***************************************************************************)
Returned == IsSome(result)
ReturnedItem == IsSome(result) /\ IsSome(Val(result).item)

\* an environment variable that is missing: not set, or set to ''
Missing(v) == v \in {"unset", "empty"}

\* the provider an offer comes from, by the label its adapter builds
IsWalmartOffer(d) == d.store[1] = "W"
IsKrogerOffer(d) == d.store[1] = "K"

\* C1: whenever fetchProductWithDeals returns an item, the returned deals are
\* non-decreasing by price, whatever the order of the provider answers.
C1_DealsSortedByPrice ==
    ReturnedItem =>
        \A i, j \in 1..Len(Val(result).deals) :
            i < j => Val(result).deals[i].price <= Val(result).deals[j].price

\* C1 witness: a call has returned two or more deals, and the offers were pushed
\* out of price order (Walmart's before a cheaper one of Kroger's).
C1_Witness ==
    /\ ReturnedItem
    /\ Len(Val(result).deals) >= 2
    /\ \E i, j \in 1..Len(deals) : i < j /\ deals[i].price > deals[j].price

\* C2: when the returned item has a store label, no returned deal has a store
\* label equal to it ignoring case.
C2_SelfExclusion ==
    (ReturnedItem /\ IsSome(Val(Val(result).item).store)) =>
        \A i \in 1..Len(Val(result).deals) :
            toLowerCase(Val(result).deals[i].store)
                # toLowerCase(Val(Val(Val(result).item).store))

\* C2 witness: a call has returned, and one of the offers fetched carried the
\* canonical item's store label in another case (it was filtered out).
C2_Witness ==
    /\ ReturnedItem
    /\ \E i \in 1..Len(deals) :
        /\ deals[i].store # Val(Val(Val(result).item).store)
        /\ toLowerCase(deals[i].store) = toLowerCase(Val(Val(Val(result).item).store))

C9_NothingConfigured ==
    ((Missing(env.KROGER_CLIENT_ID) \/ Missing(env.KROGER_CLIENT_SECRET))
        /\ Missing(env.WALMART_PUBLISHER_ID)) =>
        /\ klog = <<>> /\ wlog = <<>>
        /\ pc \in {"start", "all", "done"}
        /\ pc = "all" => (kpc = "done" /\ wpc = "done")
        /\ pc = "done" => result = Some([item |-> None, deals |-> <<>>])

\* C9 witness: the call has returned with only one Kroger secret present and an
\* empty publisher id.
C9_Witness ==
    /\ env.KROGER_CLIENT_ID = "set" /\ env.KROGER_CLIENT_SECRET = "unset"
    /\ env.WALMART_PUBLISHER_ID = "empty"
    /\ pc = "done"

\* C10: a provider without credential, or whose store-locate for the canonical
\* lookup returned no stores, supplies neither the canonical item nor any
\* returned offer.
C10_NoStoreNoContribution ==
    Returned =>
        /\ (~hasWalmart \/ walmartStores = Some(<<>>)) =>
              /\ ~(krogerItem = None /\ IsSome(walmartItem))
              /\ \A i \in 1..Len(Val(result).deals) :
                    ~IsWalmartOffer(Val(result).deals[i])
        /\ (~IsSome(krogerToken) \/ krogerLocations = Some(<<>>)) =>
              /\ ~IsSome(krogerItem)
              /\ \A i \in 1..Len(Val(result).deals) :
                    ~IsKrogerOffer(Val(result).deals[i])

\* a sequence back to front
Reverse(q) == [i \in 1..Len(q) |-> q[Len(q) + 1 - i]]

\* C14: searchProducts returns the Kroger results followed by the Walmart
\* results, each in its adapter's order, nothing removed; a provider that is not
\* configured contributes nothing.
C14_KrogerThenWalmart ==
    IsSome(searchResult) =>
        /\ Val(searchResult) = krogerFound \o walmartFound
        /\ ~KrogerConfigured(env) => (krogerFound = <<>> /\ klog = <<>>)
        /\ ~Truthy(env.WALMART_PUBLISHER_ID) => (walmartFound = <<>> /\ wlog = <<>>)

\* both providers found two products, the same two, in opposite orders
C14_Witness ==
    /\ IsSome(searchResult)
    /\ Len(krogerFound) = 2
    /\ Len(walmartFound) = 2
    /\ krogerFound[1].id = walmartFound[2].id
    /\ krogerFound[2].id = walmartFound[1].id
    /\ krogerFound[1].id # krogerFound[2].id

\* C17: the history is most recent first: it is the items added since the last
\* clear, newest first, one element per addItem (repeated ids included), and
\* empty after a clear.
C17_MostRecentFirst == history = Reverse(added)

\* three items were added, the first and the last of them the same item
C17_Witness ==
    /\ Len(history) = 3
    /\ history[1] = history[3]
    /\ history[1] # history[2]

\* C18: the returned deals hold offers only of providers other than the one the
\* canonical item comes from; when Kroger supplied the canonical item, no Kroger
\* store offer is fetched or returned.
C18_OnlyOtherProviders ==
    /\ IsSome(krogerItem) => pc \notin {"krogerDeals.locations", "krogerDeals.products"}
    /\ ReturnedItem =>
          /\ IsSome(krogerItem) =>
                \A i \in 1..Len(Val(result).deals) : ~IsKrogerOffer(Val(result).deals[i])
          /\ ~IsSome(krogerItem) =>
                \A i \in 1..Len(Val(result).deals) : ~IsWalmartOffer(Val(result).deals[i])

\* the requests of one kind in a log
OfKind(log, kind) == SelectSeq(log, LAMBDA r : r.kind = kind)
\* no two requests of a log are for the same thing (kind and store)
NoRepeatedRequest(log) ==
    \A i, j \in 1..Len(log) :
        i < j => ~(log[i].kind = log[j].kind /\ log[i].store = log[j].store)

\* C19: during one call no request is sent twice: each provider's store-locate at
\* most once, the product lookup of a (provider, store) at most once.
C19_EachRequestOnce ==
    /\ Len(OfKind(klog, "locations")) <= 1
    /\ Len(OfKind(wlog, "stores")) <= 1
    /\ NoRepeatedRequest(klog)
    /\ NoRepeatedRequest(wlog)

\* C20: a provider call that never returns stalls only that provider's chain: once
\* the call is made, the canonical chain of a configured provider that is not
\* complete has a request outstanding whose answer it can take, whatever the
\* other provider's calls do.
C20_HangStallsOnlyItsChain ==
    /\ (pc \in {"token", "all"} /\ Truthy(env.WALMART_PUBLISHER_ID) /\ wpc # "done") =>
          ENABLED (WalmartStoresResponse \/ WalmartItemResponse)
    /\ (pc \in {"token", "all"}
          /\ Truthy(env.KROGER_CLIENT_ID) /\ Truthy(env.KROGER_CLIENT_SECRET)
          /\ kpc # "done") =>
          ENABLED (TokenResponse \/ KrogerLocationsResponse \/ KrogerProductResponse)

(***************************************************************************)
(* Properties of the adapters on raw payloads, checked under AdapterSpec.  *)
(***************************************************************************)
Ended == IsSome(outcome)
\* the Items an operation that ended without raising has produced
Produced ==
    IF Ended /\ ~Val(outcome).raised
          /\ op \in {"getKrogerProductByUPC", "getWalmartProductByUPC",
                     "searchKrogerProducts", "searchWalmartProducts"}
    THEN {Val(outcome).value[k] : k \in 1..Len(Val(outcome).value)}
    ELSE {}

\* C11: no adapter operation raises: a failed request, a status that is not 2xx
\* or a malformed payload gives the absent or empty result.
C11_NeverRaises == Ended => ~Val(outcome).raised

\* C12: the price of every Item a lookup or a search produces is a number that
\* is not negative, never null, undefined or NaN, whatever the price fields hold.
C12_PriceIsNonNegativeNumber ==
    \A item \in Produced : item.price.t = "number" /\ item.price.num >= 0

\* a present numeric value: one that is there and converts to a number
Numeric(x) == ~Nullish(x) /\ Number(x) # NaN
\* the first numeric value of the fields in their order, 0 if there is none
FirstNumeric(fields) ==
    IF \A k \in 1..Len(fields) : ~Numeric(fields[k]) THEN Num(0)
    ELSE Number(fields[CHOOSE k \in 1..Len(fields) :
                          Numeric(fields[k]) /\ \A h \in 1..(k - 1) : ~Numeric(fields[h])])

\* C13: the price of a looked-up product is the first present numeric value in
\* the provider's order (Kroger: promo, regular; Walmart: salePrice, listPrice,
\* msrp, price) and 0 if there is none.
C13_FirstNumericPrice ==
    (Ended /\ ~Val(outcome).raised /\ IsSome(Val(outcome).value)) =>
        /\ op = "getKrogerProductByUPC" =>
              LET r == response.body.data.arr[1]
              IN  Val(Val(outcome).value).price = FirstNumeric(<<r.promo, r.regular>>)
        /\ op = "getWalmartProductByUPC" =>
              LET r == response.body.data.arr[1]
              IN  Val(Val(outcome).value).price = FirstNumeric(PriceFields(r))

\* C15: a search by term returns at most 20 items, whatever the provider sends.
C15_AtMostTwentyItems ==
    (Ended /\ op \in {"searchKrogerProducts", "searchWalmartProducts"}
       /\ ~Val(outcome).raised) =>
        Len(Val(outcome).value) <= SearchLimit

(***************************************************************************)
(* Properties of evaluateDeal, checked under EvalSpec.                     *)
(***************************************************************************)
Evaluated == IsSome(evaluated)
\* offers sorted ascending by price
OffersAscending ==
    \A i, j \in 1..Len(offers) : i < j => offers[i].price <= offers[j].price
\* the recommendations of an item as a list: none when it carries none
RecList(item) ==
    IF IsSome(item.recommendations) THEN Val(item.recommendations) ELSE <<>>
\* the first k offers, in their given order
FirstOffers(k) == [i \in 1..(IF Len(offers) < k THEN Len(offers) ELSE k) |-> offers[i]]

C5_FirstOffersRecommended ==
    (Evaluated /\ Len(offers) > 0) =>
        /\ Val(evaluated).tag = "DEAL" =>
              Val(evaluated).recommendations = Some(FirstOffers(2))
        /\ Val(evaluated).tag = "NO DEAL" =>
              Val(evaluated).recommendations = Some(FirstOffers(3))

\* C5 witness: NO DEAL over four offers that are not all equal: three are
\* recommended.
C5_Witness ==
    /\ Evaluated
    /\ Len(offers) = 4
    /\ offers[3] # offers[4]
    /\ Val(evaluated).tag = "NO DEAL"
    /\ Len(RecList(Val(evaluated))) = 3

\* C6: a SO-SO verdict comes with exactly the offers d, in their given order, for
\* which |d.price - scanned.price| / scanned.price <= 0.05 (scanned.price is
\* positive there).
C6_SoSoWithinMargin ==
    (Evaluated /\ Val(evaluated).tag = "SO-SO") =>
        /\ RecList(Val(evaluated)) =
              SelectSeq(offers,
                  LAMBDA d : /\ scanned.price > 0
                             /\ Abs(d.price - scanned.price) * 100 <= 5 * scanned.price)
        /\ Len(offers) > 0 => IsSome(Val(evaluated).recommendations)

\* C6 witness: SO-SO with four recommendations (more than DEAL or NO DEAL ever
\* give), one of them more expensive than the scanned item, and an offer left out.
C6_Witness ==
    /\ Evaluated
    /\ Val(evaluated).tag = "SO-SO"
    /\ Len(RecList(Val(evaluated))) = 4
    /\ \E i \in 1..4 : RecList(Val(evaluated))[i].price > scanned.price

\* C7: with no offers the verdict is DEAL when the item carried none and the
\* item's own verdict otherwise, and no recommendations are returned.
C7_NoOffers ==
    (Evaluated /\ Len(offers) = 0) =>
        /\ scanned.tag = NoTag => Val(evaluated).tag = "DEAL"
        /\ scanned.tag # NoTag => Val(evaluated).tag = scanned.tag
        /\ Val(evaluated).recommendations = None

\* C7 witness: an item carrying NO DEAL and recommendations was evaluated against
\* no offers.
C7_Witness ==
    /\ Evaluated
    /\ Len(offers) = 0
    /\ scanned.tag = "NO DEAL"
    /\ IsSome(scanned.recommendations)

\* C8: evaluating the result of evaluateDeal again with the same offers gives the
\* same verdict and the same recommendations.
C8_Idempotent ==
    IsSome(reevaluated) =>
        /\ Val(reevaluated).tag = Val(evaluated).tag
        /\ Val(reevaluated).recommendations = Val(evaluated).recommendations

\* C8 witness: the first evaluation changed both the verdict and the
\* recommendations the item carried, and the result was evaluated again.
C8_Witness ==
    /\ IsSome(reevaluated)
    /\ Len(offers) > 0
    /\ scanned.tag # NoTag
    /\ scanned.tag # Val(evaluated).tag
    /\ IsSome(scanned.recommendations)
    /\ scanned.recommendations # Val(evaluated).recommendations

\* C16: every recommendation attached to a scanned item has the organic status
\* of the item.  The status of a Walmart offer is read off its name, as the
\* Walmart adapter reads it (walmart.ts:166).
C16_OrganicStaysOrganic ==
    (pc = "done" /\ IsSome(evaluated)) =>
        \A i \in 1..Len(RecList(Val(evaluated))) :
            LET rec == RecList(Val(evaluated))[i]
            IN  IsWalmartOffer(rec) =>
                   (Includes(toLowerCase(rec.name), Organic) <=> Val(evaluated).isOrganic)

\* the requests of a log sent after its last request of the given kind
SinceLast(log, kind) ==
    LET at == {i \in 1..Len(log) : log[i].kind = kind}
        last == IF at = {} THEN 0 ELSE CHOOSE i \in at : \A j \in at : j <= i
    IN  SubSeq(log, last + 1, Len(log))

\* C21: searchProducts invokes the searches of all configured providers
\* concurrently: with Kroger and Walmart both usable, Walmart's search request has
\* been sent whenever Kroger's search (its store locate or its product search) is
\* outstanding, so a Kroger search that never returns does not hold it back.
C21_WalmartSearchNotHeldBack ==
    (spc \in {"kroger.locations", "kroger.products"} /\ hasWalmart) =>
        OfKind(wlog, "search") # <<>>

\* C22: the per-store competitor lookups of getWalmartDeals and getKrogerDeals are
\* strictly sequential: while store dealIdx is awaited, the lookups sent since the
\* stores were located are exactly those of stores 1..dealIdx, in the order the
\* stores were located, so lookup k+1 is sent only after the answers of lookups
\* 1..k and one lookup is outstanding.
C22_LookupsOneAtATime ==
    /\ pc = "walmartDeals.items" =>
          SinceLast(wlog, "stores") =
              [i \in 1..dealIdx |-> WalmartItemsRequest(env, dealStores[i])]
    /\ pc = "krogerDeals.products" =>
          SinceLast(klog, "locations") =
              [i \in 1..dealIdx |->
                  KrogerProductRequest(dealStores[i].locationId, krogerToken)]

\* C22 witness: two stores were located for the competitor offers, the first
\* store's lookup has returned and the second store's lookup is outstanding.
C22_Witness ==
    /\ pc \in {"walmartDeals.items", "krogerDeals.products"}
    /\ Len(dealStores) = 2
    /\ dealIdx = 2

\* C24: every request sent to Walmart carries the publisher id, whatever the
\* value of WALMART_PUBLISHER_ID: Walmart is skipped or every request carries it.
C24_EveryWalmartRequestCarriesId ==
    \A i \in 1..Len(wlog) : wlog[i].publisherId

\* C27: every offer of a provider's deal list and of the returned deals has a
\* non-zero price: a store whose lookup gave no product or a product priced 0
\* contributes no offer, so a provider's list holds at most one offer per store
\* looked up and no two offers of the same store.
C27_OffersArePriced ==
    /\ \A i \in 1..Len(provDeals) : provDeals[i].price # 0
    /\ \A i \in 1..Len(deals) : deals[i].price # 0
    /\ Returned => \A i \in 1..Len(Val(result).deals) : Val(result).deals[i].price # 0
    /\ Len(provDeals) <= dealIdx
    /\ \A i, j \in 1..Len(provDeals) : provDeals[i].store = provDeals[j].store => i = j
    /\ \A i, j \in 1..Len(deals) : deals[i].store = deals[j].store => i = j

\* C27 witness: two stores were looked up for the competitor offers and exactly
\* one of them contributed an offer to the returned deals.
C27_Witness ==
    /\ pc = "done"
    /\ Returned
    /\ Len(dealStores) = 2
    /\ dealIdx = 2
    /\ Len(provDeals) = 1
    /\ Len(deals) = 1

\* C25 as stated: whenever evaluateDeal returns SO-SO, the cheapest offer deals[0]
\* and the scanned price are strictly positive and deals[0] is among the
\* recommendations, which are therefore not empty.
C25_SoSoAsStated ==
    (Evaluated /\ Val(evaluated).tag = "SO-SO") =>
        /\ Len(offers) > 0
        /\ offers[1].price > 0
        /\ scanned.price > 0
        /\ \E i \in 1..Len(RecList(Val(evaluated))) :
               RecList(Val(evaluated))[i] = offers[1]

\* C25 amended: whenever evaluateDeal returns SO-SO for a non-empty offer list,
\* deals[0] and the scanned price are strictly positive and deals[0] is among the
\* recommendations; with no offers an item that carried SO-SO keeps it and has no
\* recommendations.
C25_SoSoWithOffers ==
    (Evaluated /\ Val(evaluated).tag = "SO-SO") =>
        IF Len(offers) > 0
        THEN /\ offers[1].price > 0
             /\ scanned.price > 0
             /\ \E i \in 1..Len(RecList(Val(evaluated))) :
                    RecList(Val(evaluated))[i] = offers[1]
        ELSE /\ scanned.tag = "SO-SO"
             /\ Val(evaluated).recommendations = None

\* C25 witness: SO-SO was returned for an item priced above the first offer, with
\* a second offer outside the margin that is left out of the recommendations.
C25_Witness ==
    /\ Evaluated
    /\ Val(evaluated).tag = "SO-SO"
    /\ Len(offers) > 1
    /\ scanned.price > offers[1].price
    /\ Len(RecList(Val(evaluated))) < Len(offers)

\* C26: evaluateDeal changes nothing but the verdict and the recommendations: the
\* returned item has the fields of the input item with every other field equal,
\* and the input item and the input offer list are never modified.
C26_OnlyVerdictAndRecommendations ==
    /\ [](Evaluated =>
            /\ DOMAIN Val(evaluated) = DOMAIN scanned
            /\ \A f \in DOMAIN scanned \ {"tag", "recommendations"} :
                   Val(evaluated)[f] = scanned[f])
    /\ [][scanned' = scanned /\ offers' = offers]_vars

\* C26 witness: an evaluation changed both the verdict and the recommendations of
\* an item that has a store.
C26_Witness ==
    /\ Evaluated
    /\ IsSome(scanned.store)
    /\ Val(evaluated).tag # scanned.tag
    /\ Val(evaluated).recommendations # scanned.recommendations

\* a call is in progress or has resolved
Started == pc # "start" \/ spc # "start"

\* C23: each call of fetchProductWithDeals or searchProducts makes exactly one
\* token exchange when both Kroger secrets are present and none otherwise; every
\* Kroger store-locate, product and search request of the call carries the token
\* that exchange obtained, never the token of an earlier call.
C23_OneTokenPerCall ==
    /\ Started => Len(OfKind(klog, "token")) = (IF KrogerConfigured(env) THEN 1 ELSE 0)
    /\ ~Started => klog = <<>>
    /\ \A i \in 1..Len(klog) :
          klog[i].kind # "token" =>
              /\ klog[i].bearer = Some(calls)
              /\ krogerToken = Some(calls)
              /\ \E j \in 1..(i - 1) : klog[j].kind = "token"

\* C23 witness: a second call has sent a store-locate and a product request
\* with its own token.
C23_Witness ==
    /\ calls = 2
    /\ OfKind(klog, "locations") # <<>>
    /\ OfKind(klog, "products") # <<>>

\* C28: the scanner handles one barcode at a time: while an invocation of
\* handleBarcodeScanned is in progress every further barcode event is ignored, so
\* at most one invocation is running, at most one fetchProductWithDeals call is
\* in flight, and the scan adds at most one entry to the history.
C28_OneBarcodeAtATime ==
    /\ Cardinality({i \in 1..Len(scans) : Running(scans[i])}) <= 1
    /\ Cardinality({i \in 1..Len(scans) : scans[i].at = "fetch"}) <= 1
    /\ Len(history) <= 1

\* C29: a scan made while the permission is not granted, whose prompt the user
\* answers by granting it, goes on to read the coordinates and to call
\* fetchProductWithDeals; it does not end with 'Location permission is required
\* to evaluate deals.'
C29_GrantedScanGoesOn ==
    \A i \in 1..Len(scans) :
        scans[i].asked = "granted" => scans[i].at # "nocoords"

\* every run of the effect has returned and no change waits for a render
AtRest ==
    /\ ~dirty
    /\ effects # <<>>
    /\ \A i \in 1..Len(effects) : ~Pending(effects[i])

\* C30: the search screen never shows the results of a superseded search: once
\* every search has completed, results holds the outcome for the latest query:
\* the items its searchProducts call found, nothing when the query is empty or
\* no coordinates were obtained, and in no case the items of an earlier query.
C30_LatestQueryShown ==
    AtRest =>
        LET latest == effects[Len(effects)] IN
        /\ \A k \in 1..Len(screenResults) : screenResults[k] = latest.q
        /\ latest.at = "resolved" => screenResults = latest.items
        /\ latest.at \in {"empty", "nocoords"} => screenResults = <<>>

====
